---- MODULE Spec2Model ----
(***************************************************************************)
(* thruput: an iperf-like throughput meter.  Three programs of the         *)
(* repository are modelled, each with its own variables:                   *)
(*                                                                         *)
(*   - the polling client of client.go: Client.Run samples counts[id],     *)
(*     which one writeForever goroutine per connection advances;           *)
(*     variant "timer" arms its timers with makeIntervalTimer and          *)
(*     makeStopTimer (client.go:126-127), variant "after" with time.After  *)
(*     (client.go:269-270);                                                *)
(*   - the channel-based client of main.go: Client.Run receives the        *)
(*     counts that one handleConn goroutine per connection sends on its    *)
(*     results channel, each ended by a makeTimeout goroutine;             *)
(*   - the server of server.go: Run hands every connection to readForever. *)
(*                                                                         *)
(* Before them comes the start-up of a client, main and NewClient, from    *)
(* the parsed flags to the call of Run; autoLabel, the unit chosen for a   *)
(* reported rate, is modelled as a function of the rate.                   *)
(*                                                                         *)
(* Time is the whole-second clock the programs configure their timers in   *)
(* (interval and duration are seconds, main.go:25-26).                     *)
(***************************************************************************)
EXTENDS Integers, Sequences, FiniteSets

\* ---------------------------------------------------------------- bounds
NumConns == 2
MaxInterval == 2
MaxDuration == 3
MaxBytes == 1
BufSize == 1
RateSpread == 4

MaxTime == MaxDuration + 1
MaxRounds == MaxDuration + 1
ConnIds == 0 .. (NumConns - 1)
Never == 0 - 1

VARIABLES
    interval,     \* main.go:26   seconds between progress rounds
    duration,     \* main.go:25   seconds until the stop signal
    clock,        \* time.Now(), in seconds since the run began
    prog,         \* the program that runs: "client.go" | "main.go" | "server.go"
    \* ---- start-up (main.go, NewClient)
    mpc,          \* main's position
    length,       \* the -len flag, "" when it is not given
    format,       \* the -f flag
    window,       \* main.go:24, the -window flag
    numConns,     \* the -P flag
    nconns,       \* len(c.conns)
    made,         \* connections NewClient's makers have established
    nerr,         \* the err NewClient returns, "nil" for none
    \* ---- report (client.go)
    ratebps,      \* a rate handed to autoLabel, in bytes per second
    labelled,     \* what autoLabel returned for it, NoLabel before the call
    \* ---- polling client (client.go)
    variant,      \* "timer": client.go:111-157, "after": client.go:254-303
    pc,           \* Client.Run's position
    idx,          \* the id of Run's current for loop
    progress,     \* deadline of the progress timer channel, or Never
    stop,         \* deadline of the stop timer channel, or Never
    counts,       \* counts[id], written by writeForever(id)
    lastCounts,   \* lastCounts[id]
    startTimes,   \* startTimes[id]
    lastTimes,    \* lastTimes[id]
    wpc,          \* writeForever(id)'s position: "unstarted" | "running"
    werr,         \* a conn.Write of connection id has returned an error
    connOpen,     \* connection id has not been closed
    out,          \* the report lines printed so far, in order
    sumDiff,      \* sum of diffBytes over all progress lines of id
    finalCount,   \* count of the final line of id, Never before it
    \* ---- channel-based client (main.go)
    hpc,          \* Client.Run's position
    hidx,         \* the id of Run's current for loop
    resNil,       \* allResults[id] == nil
    resClosed,    \* the results channel of id has been closed
    totals,       \* totals[id]
    numClosed,    \* numClosed
    cpc,          \* handleConn(id)'s position
    count,        \* handleConn(id)'s count
    progressTimer,\* handleConn(id)'s progressTimer deadline, or Never
    why,          \* what ended handleConn(id)'s loop
    moved,        \* bytes handleConn(id)'s action has transferred
    tpc,          \* the makeTimeout goroutine of id: its position
    tdeadline,    \* the deadline of its time.After, or Never
    \* ---- server (server.go)
    protocol,     \* "tcp" | "udp"
    spc,          \* Server.Run's position
    rpc,          \* readForever(c)'s position
    peerLeft,     \* bytes the peer of c still sends before it ends the stream
    peerEnd       \* how the stream of c ends: "EOF" | "error"

mainVars == <<mpc, length, format, window, numConns, nconns, made, nerr>>
labelVars == <<ratebps, labelled>>
confVars == <<interval, duration, prog, mainVars, labelVars>>
ioVars == <<connOpen, out, finalCount>>
pollVars == <<variant, pc, idx, progress, stop, counts, lastCounts, startTimes,
              lastTimes, wpc, werr, sumDiff>>
chanVars == <<hpc, hidx, resNil, resClosed, totals, numClosed, cpc, count,
              progressTimer, why, moved, tpc, tdeadline>>
srvVars == <<protocol, spc, rpc, peerLeft, peerEnd>>
vars == <<confVars, clock, ioVars, pollVars, chanVars, srvVars>>

\* ------------------------------------------------------------ timer source
Ready(t) == t # Never /\ t <= clock

\* the bug of a timer that never fires
timeAfter_Never(now, d) == Never

\* time.After(d * time.Second): fires d seconds from now, at once when d = 0
timeAfter(now, d) == now + d

\* The timer factories of client.go:126-127 are not among the sources; they
\* follow the specification's Timer Source: single-shot, never firing when
\* the configured delay is <= 0.
makeIntervalTimer(now) == IF interval <= 0 THEN Never ELSE now + interval

makeStopTimer(now) == IF duration <= 0 THEN Never ELSE now + duration

\* the bug of arming the progress timer with time.After in either variant
ArmProgress_After(now) == timeAfter(now, interval)

ArmProgress(now) ==
    IF variant = "timer" THEN makeIntervalTimer(now) ELSE timeAfter(now, interval)

ArmStop(now) ==
    IF variant = "timer" THEN makeStopTimer(now) ELSE timeAfter(now, duration)

\* ---------------------------------------------------------------- reporter
\* the bug of printing every line under the id of the first connection
ReportLine_FirstId(kind, id) == [kind |-> kind, id |-> 0]

\* report / fmt.Printf: one line of output; kind is the round it belongs to
ReportLine(kind, id) == [kind |-> kind, id |-> id]

Lines(kind, id) == {i \in DOMAIN out : out[i] = ReportLine(kind, id)}

ProgressRounds(id) == Cardinality(Lines("progress", id))

NoLabel == [rate |-> <<0, 1>>, unit |-> ""]

\* client.go:65-81  autoLabel(bps): the unit, and the rate in that unit as the
\* quotient <<dividend, divisor>>
autoLabel(bps) ==
    IF bps > 1000000000 THEN [rate |-> <<bps, 125000000>>, unit |-> "gbps"]
    ELSE IF bps > 1000000 THEN [rate |-> <<bps, 125000>>, unit |-> "mbps"]
    ELSE IF bps > 1000 THEN [rate |-> <<bps, 125>>, unit |-> "kbps"]
    ELSE [rate |-> <<bps, 1>>, unit |-> "bps"]

\* the rates tried: zero, and those within RateSpread of a bound of
\* autoLabel's switch or of a unit's divisor
RateMarks == {125, 1000, 125000, 1000000, 125000000, 1000000000}

Rates == {0} \cup {m + d : m \in RateMarks, d \in (0 - RateSpread) .. RateSpread}

InitLabel ==
    /\ ratebps \in Rates
    /\ labelled = NoLabel

\* no rate is being labelled
LabelOff ==
    /\ ratebps = 0
    /\ labelled = NoLabel

\* report, client.go:101-102: rate, rateLabel = autoLabel(ratebps)
reportAutoLabel ==
    /\ labelled = NoLabel
    /\ labelled' = autoLabel(ratebps)
    /\ UNCHANGED <<interval, duration, prog, mainVars, ratebps, clock, ioVars,
                   pollVars, chanVars, srvVars>>

\* ------------------------------------------------- polling client, client.go
InitPoll ==
    /\ variant \in {"timer", "after"}
    /\ pc = "launch"
    /\ idx = 0
    /\ progress = Never
    /\ stop = Never
    /\ counts = [id \in ConnIds |-> 0]
    /\ lastCounts = [id \in ConnIds |-> 0]
    /\ startTimes = [id \in ConnIds |-> 0]
    /\ lastTimes = [id \in ConnIds |-> 0]
    /\ wpc = [id \in ConnIds |-> "unstarted"]
    /\ werr = [id \in ConnIds |-> FALSE]
    /\ sumDiff = [id \in ConnIds |-> 0]

\* conn.Write(buffer): the whole buffer and no error, or fewer bytes and an
\* error (io.EOF or another)
WriteResults ==
    {[n |-> BufSize, err |-> "nil"]}
        \cup {[n |-> k, err |-> e] : k \in 0 .. (BufSize - 1), e \in {"EOF", "error"}}

\* writeForever's reaction to the error of one Write: the loop goes on
AfterWrite(err) == "running"

\* the bug of handing every loop the counter of the last connection
CounterOf_Last(id) == NumConns - 1

\* client.go:120  go writeForever(conn, &counts[id]): the counter that the
\* loop of connection id is given
CounterOf(id) == id

\* One iteration of writeForever's loop.  The process ends when Run returns
\* (main returns), which ends the goroutine with it.
writeForever(id) ==
    /\ wpc[id] = "running"
    /\ pc # "done"
    /\ \E r \in WriteResults :
        /\ counts[CounterOf(id)] + r.n <= MaxBytes
        /\ counts' = [counts EXCEPT ![CounterOf(id)] = @ + r.n]
        /\ werr' = [werr EXCEPT ![id] = @ \/ r.err # "nil"]
        /\ wpc' = [wpc EXCEPT ![id] = AfterWrite(r.err)]
    /\ UNCHANGED <<confVars, clock, connOpen, out, finalCount, variant, pc, idx,
                   progress, stop, lastCounts, startTimes, lastTimes, sumDiff,
                   chanVars, srvVars>>

\* Run, client.go:119-124: go writeForever(conn, &counts[id]) and the stamps
Launch ==
    /\ prog = "client.go"
    /\ mpc = "run"
    /\ pc = "launch"
    /\ idx < nconns
    /\ wpc' = [wpc EXCEPT ![idx] = "running"]
    /\ startTimes' = [startTimes EXCEPT ![idx] = clock]
    /\ lastTimes' = [lastTimes EXCEPT ![idx] = clock]
    /\ idx' = idx + 1
    /\ UNCHANGED <<confVars, clock, connOpen, out, finalCount, variant, pc, progress,
                   stop, counts, lastCounts, werr, sumDiff, chanVars, srvVars>>

\* Run, client.go:126-127
ArmTimers ==
    /\ prog = "client.go"
    /\ mpc = "run"
    /\ pc = "launch"
    /\ idx = nconns
    /\ progress' = ArmProgress(clock)
    /\ stop' = ArmStop(clock)
    /\ pc' = "loop"
    /\ idx' = 0
    /\ UNCHANGED <<confVars, clock, connOpen, out, finalCount, variant, counts,
                   lastCounts, startTimes, lastTimes, wpc, werr, sumDiff, chanVars,
                   srvVars>>

\* select, case <-progress: a ready case is taken; among ready cases the
\* choice is arbitrary
SelectProgress ==
    /\ pc = "loop"
    /\ Ready(progress)
    /\ ProgressRounds(0) < MaxRounds
    /\ pc' = "round"
    /\ idx' = 0
    /\ progress' = Never
    /\ UNCHANGED <<confVars, clock, connOpen, out, finalCount, variant, stop, counts,
                   lastCounts, startTimes, lastTimes, wpc, werr, sumDiff, chanVars,
                   srvVars>>

\* the bug of reporting the running total as the window
DiffBytes_Total(totalBytes, last) == totalBytes

\* client.go:135  diffBytes := totalBytes - lastCounts[id]; the counter never
\* runs backward, so the uint64 subtraction does not wrap
DiffBytes(totalBytes, last) == totalBytes - last

\* the bug of never saving the sample
NextLastCount_Stale(totalBytes, last) == last

\* client.go:140  lastCounts[id] = totalBytes
NextLastCount(totalBytes, last) == totalBytes

\* client.go:136-137 and 152  now.Sub(then).Seconds()
Seconds(now, then) == now - then

\* client.go:138-139 and 153  float64(bytes) / secs, a division of float64:
\* by zero it does not panic, it gives NaN for 0/0 and +Inf for the rest
Rate(bytes, secs) ==
    [bytes |-> bytes,
     secs |-> secs,
     is |-> IF secs # 0 THEN "finite" ELSE IF bytes = 0 THEN "NaN" ELSE "+Inf"]

\* client.go:138  rate := float64(diffBytes) / diffTime, at now = clock
rate(id) ==
    Rate(DiffBytes(counts[id], lastCounts[id]), Seconds(clock, lastTimes[id]))

\* client.go:139  meanRate := float64(totalBytes) / totalTime, at now = clock
meanRate(id) == Rate(counts[id], Seconds(clock, startTimes[id]))

\* client.go:152-153  float64(count) / diff, at time.Now() = clock
finalRate(id) == Rate(counts[id], Seconds(clock, startTimes[id]))

\* Run, client.go:132-143: the sample and progress line of connection idx
SampleConn ==
    /\ pc = "round"
    /\ idx < nconns
    /\ LET totalBytes == counts[idx]
           diffBytes == DiffBytes(totalBytes, lastCounts[idx])
       IN  /\ lastCounts' = [lastCounts EXCEPT ![idx] = NextLastCount(totalBytes, @)]
           /\ lastTimes' = [lastTimes EXCEPT ![idx] = clock]
           /\ out' = Append(out, ReportLine("progress", idx))
           /\ sumDiff' = [sumDiff EXCEPT ![idx] = @ + diffBytes]
    /\ idx' = idx + 1
    /\ UNCHANGED <<confVars, clock, connOpen, finalCount, variant, pc, progress,
                   stop, counts, startTimes, wpc, werr, chanVars, srvVars>>

\* the bug of a progress timer that is not armed again
Rearmed_Never(now) == Never

\* client.go:144  progress = makeIntervalTimer()
Rearmed(now) == ArmProgress(now)

\* Run, client.go:144: the progress timer is armed again after the round
RearmProgress ==
    /\ pc = "round"
    /\ idx = nconns
    /\ progress' = Rearmed(clock)
    /\ pc' = "loop"
    /\ idx' = 0
    /\ UNCHANGED <<confVars, clock, connOpen, out, finalCount, variant, stop, counts,
                   lastCounts, startTimes, lastTimes, wpc, werr, sumDiff, chanVars,
                   srvVars>>

\* select, case <-stop: break loop
SelectStop ==
    /\ pc = "loop"
    /\ Ready(stop)
    /\ pc' = "final"
    /\ idx' = 0
    /\ stop' = Never
    /\ UNCHANGED <<confVars, clock, connOpen, out, finalCount, variant, progress,
                   counts, lastCounts, startTimes, lastTimes, wpc, werr, sumDiff,
                   chanVars, srvVars>>

\* the bug of reporting the last sample instead of the counter
FinalCountOf_LastSample(id) == lastCounts[id]

\* client.go:151  count := counts[id]
FinalCountOf(id) == counts[id]

\* Run, client.go:150-154: the final line of connection idx
FinalReport ==
    /\ pc = "final"
    /\ idx < nconns
    /\ finalCount' = [finalCount EXCEPT ![idx] = FinalCountOf(idx)]
    /\ out' = Append(out, ReportLine("final", idx))
    /\ idx' = idx + 1
    /\ UNCHANGED <<confVars, clock, connOpen, variant, pc, progress, stop, counts,
                   lastCounts, startTimes, lastTimes, wpc, werr, sumDiff, chanVars,
                   srvVars>>

\* Run, client.go:156: return nil, straight after the last final line
RunReturn ==
    /\ pc = "final"
    /\ idx = nconns
    /\ pc' = "done"
    /\ UNCHANGED <<confVars, clock, connOpen, out, finalCount, variant, idx,
                   progress, stop, counts, lastCounts, startTimes, lastTimes, wpc,
                   werr, sumDiff, chanVars, srvVars>>

\* A second passes while Run spins through the default case of its select.
\* Run polls without blocking, so a timer that is ready is taken before the
\* clock moves on; a zero interval of time.After is ready at every poll, and
\* the clock moves on between its rounds.
Tick ==
    /\ pc = "loop"
    /\ ~Ready(stop)
    /\ ~Ready(progress) \/ interval = 0
    /\ clock < MaxTime
    /\ clock' = clock + 1
    /\ UNCHANGED <<confVars, ioVars, pollVars, chanVars, srvVars>>

NextPoll ==
    \/ Launch
    \/ ArmTimers
    \/ SelectProgress
    \/ SampleConn
    \/ RearmProgress
    \/ SelectStop
    \/ FinalReport
    \/ RunReturn
    \/ Tick
    \/ \E id \in ConnIds : writeForever(id)

\* ------------------------------------------- channel-based client, main.go
InitChan ==
    /\ hpc = "launch"
    /\ hidx = 0
    /\ resNil = [id \in ConnIds |-> TRUE]
    /\ resClosed = [id \in ConnIds |-> FALSE]
    /\ totals = [id \in ConnIds |-> 0]
    /\ numClosed = 0
    /\ cpc = [id \in ConnIds |-> "unstarted"]
    /\ count = [id \in ConnIds |-> 0]
    /\ progressTimer = [id \in ConnIds |-> Never]
    /\ why = [id \in ConnIds |-> "none"]
    /\ moved = [id \in ConnIds |-> 0]
    /\ tpc = [id \in ConnIds |-> "unstarted"]
    /\ tdeadline = [id \in ConnIds |-> Never]

\* The process ends when Run returns (main.go:125-127), and every goroutine
\* with it.
Alive == hpc # "done"

\* Run, main.go:169-173: the results channel, makeTimeout() and its goroutine,
\* go handleConn(...)
HLaunch ==
    /\ prog = "main.go"
    /\ mpc = "run"
    /\ hpc = "launch"
    /\ hidx < nconns
    /\ resNil' = [resNil EXCEPT ![hidx] = FALSE]
    /\ cpc' = [cpc EXCEPT ![hidx] = "start"]
    /\ tpc' = [tpc EXCEPT ![hidx] = "start"]
    /\ hidx' = hidx + 1
    /\ UNCHANGED <<confVars, clock, ioVars, pollVars, hpc, resClosed, totals,
                   numClosed, count, progressTimer, why, moved, tdeadline, srvVars>>

\* Run, main.go:176-178: totals, numClosed and the first test of the outer loop
HEnterLoop ==
    /\ prog = "main.go"
    /\ mpc = "run"
    /\ hpc = "launch"
    /\ hidx = nconns
    /\ hpc' = IF numClosed < nconns THEN "recv" ELSE "final"
    /\ hidx' = 0
    /\ UNCHANGED <<confVars, clock, ioVars, pollVars, resNil, resClosed, totals,
                   numClosed, cpc, count, progressTimer, why, moved, tpc, tdeadline,
                   srvVars>>

\* makeTimeout's goroutine, main.go:207: time.After(duration seconds)
TimeoutStart(id) ==
    /\ Alive
    /\ tpc[id] = "start"
    /\ tdeadline' = [tdeadline EXCEPT ![id] = timeAfter(clock, duration)]
    /\ tpc' = [tpc EXCEPT ![id] = "wait"]
    /\ UNCHANGED <<confVars, clock, ioVars, pollVars, hpc, hidx, resNil, resClosed,
                   totals, numClosed, cpc, count, progressTimer, why, moved, srvVars>>

\* makeTimeout's goroutine, main.go:207-208: the timer fired; it now blocks in
\* done <- true until handleConn receives
TimeoutFire(id) ==
    /\ Alive
    /\ tpc[id] = "wait"
    /\ Ready(tdeadline[id])
    /\ tpc' = [tpc EXCEPT ![id] = "send"]
    /\ UNCHANGED <<confVars, clock, ioVars, pollVars, hpc, hidx, resNil, resClosed,
                   totals, numClosed, cpc, count, progressTimer, why, moved,
                   tdeadline, srvVars>>

\* handleConn, main.go:223-225
HandleStart(id) ==
    /\ Alive
    /\ cpc[id] = "start"
    /\ progressTimer' = [progressTimer EXCEPT ![id] = timeAfter(clock, interval)]
    /\ count' = [count EXCEPT ![id] = 0]
    /\ cpc' = [cpc EXCEPT ![id] = "loop"]
    /\ UNCHANGED <<confVars, clock, ioVars, pollVars, hpc, hidx, resNil, resClosed,
                   totals, numClosed, why, moved, tpc, tdeadline, srvVars>>

\* handleConn's select, case <-progressTimer (main.go:229-231): results is not
\* nil for the client, and the goroutine blocks in results <- count
HandleProgress(id) ==
    /\ Alive
    /\ cpc[id] = "loop"
    /\ Ready(progressTimer[id])
    /\ ProgressRounds(id) < MaxRounds
    /\ progressTimer' = [progressTimer EXCEPT ![id] = Never]
    /\ cpc' = [cpc EXCEPT ![id] = "send"]
    /\ UNCHANGED <<confVars, clock, ioVars, pollVars, hpc, hidx, resNil, resClosed,
                   totals, numClosed, count, why, moved, tpc, tdeadline, srvVars>>

\* handleConn, main.go:233-234, after its send was received
HandleRearm(id) ==
    /\ Alive
    /\ cpc[id] = "rearm"
    /\ progressTimer' = [progressTimer EXCEPT ![id] = timeAfter(clock, interval)]
    /\ count' = [count EXCEPT ![id] = 0]
    /\ cpc' = [cpc EXCEPT ![id] = "loop"]
    /\ UNCHANGED <<confVars, clock, ioVars, pollVars, hpc, hidx, resNil, resClosed,
                   totals, numClosed, why, moved, tpc, tdeadline, srvVars>>

\* handleConn's select, case <-terminator (main.go:235-236): the rendezvous
\* with the timeout goroutine's done <- true
HandleTerminate(id) ==
    /\ Alive
    /\ cpc[id] = "loop"
    /\ tpc[id] = "send"
    /\ tpc' = [tpc EXCEPT ![id] = "done"]
    /\ why' = [why EXCEPT ![id] = "terminated"]
    /\ cpc' = [cpc EXCEPT ![id] = "break"]
    /\ UNCHANGED <<confVars, clock, ioVars, pollVars, hpc, hidx, resNil, resClosed,
                   totals, numClosed, count, progressTimer, moved, tdeadline, srvVars>>

\* handleConn's select, default (main.go:237-245): taken when no case is
\* ready; one action(buffer), here conn.Write
HandleAction(id) ==
    /\ Alive
    /\ cpc[id] = "loop"
    /\ ~Ready(progressTimer[id])
    /\ tpc[id] # "send"
    /\ \E r \in WriteResults :
        /\ moved[id] + r.n <= MaxBytes
        /\ moved' = [moved EXCEPT ![id] = @ + r.n]
        /\ IF r.err # "nil"
           THEN /\ why' = [why EXCEPT ![id] = r.err]
                /\ cpc' = [cpc EXCEPT ![id] = "break"]
                /\ count' = count
           ELSE /\ count' = [count EXCEPT ![id] = @ + r.n]
                /\ UNCHANGED <<why, cpc>>
    /\ UNCHANGED <<confVars, clock, ioVars, pollVars, hpc, hidx, resNil, resClosed,
                   totals, numClosed, progressTimer, tpc, tdeadline, srvVars>>

\* handleConn, main.go:248-250: close(results)
HandleCloseResults(id) ==
    /\ Alive
    /\ cpc[id] = "break"
    /\ resClosed' = [resClosed EXCEPT ![id] = TRUE]
    /\ cpc' = [cpc EXCEPT ![id] = "return"]
    /\ UNCHANGED <<confVars, clock, ioVars, pollVars, hpc, hidx, resNil, totals,
                   numClosed, count, progressTimer, why, moved, tpc, tdeadline,
                   srvVars>>

\* handleConn's deferred function, main.go:218-221: conn.Close()
HandleClose(id) ==
    /\ Alive
    /\ cpc[id] = "return"
    /\ connOpen' = [connOpen EXCEPT ![id] = FALSE]
    /\ cpc' = [cpc EXCEPT ![id] = "exited"]
    /\ UNCHANGED <<confVars, clock, out, finalCount, pollVars, hpc, hidx, resNil,
                   resClosed, totals, numClosed, count, progressTimer, why, moved,
                   tpc, tdeadline, srvVars>>

\* Run, main.go:180-182: a nil entry is skipped
HSkipNil ==
    /\ hpc = "recv"
    /\ hidx < nconns
    /\ resNil[hidx]
    /\ hidx' = hidx + 1
    /\ UNCHANGED <<confVars, clock, ioVars, pollVars, hpc, resNil, resClosed, totals,
                   numClosed, cpc, count, progressTimer, why, moved, tpc, tdeadline,
                   srvVars>>

\* Run, main.go:183 and 190-193: count, ok := <-results meets handleConn's
\* results <- count; the count is added and its line printed
HReceive ==
    /\ hpc = "recv"
    /\ hidx < nconns
    /\ ~resNil[hidx]
    /\ cpc[hidx] = "send"
    /\ totals' = [totals EXCEPT ![hidx] = @ + count[hidx]]
    /\ out' = Append(out, ReportLine("progress", hidx))
    /\ cpc' = [cpc EXCEPT ![hidx] = "rearm"]
    /\ hidx' = hidx + 1
    /\ UNCHANGED <<confVars, clock, connOpen, finalCount, pollVars, hpc, resNil,
                   resClosed, numClosed, count, progressTimer, why, moved, tpc,
                   tdeadline, srvVars>>

\* the bug of leaving a closed channel in allResults
HReceiveClosed_KeepsChannel ==
    /\ hpc = "recv"
    /\ hidx < nconns
    /\ ~resNil[hidx]
    /\ resClosed[hidx]
    /\ numClosed' = numClosed + 1
    /\ hidx' = hidx + 1
    /\ UNCHANGED <<confVars, clock, ioVars, pollVars, hpc, resNil, resClosed, totals,
                   cpc, count, progressTimer, why, moved, tpc, tdeadline, srvVars>>

\* Run, main.go:183-189: the receive finds the channel closed
HReceiveClosed ==
    /\ hpc = "recv"
    /\ hidx < nconns
    /\ ~resNil[hidx]
    /\ resClosed[hidx]
    /\ resNil' = [resNil EXCEPT ![hidx] = TRUE]
    /\ numClosed' = numClosed + 1
    /\ hidx' = hidx + 1
    /\ UNCHANGED <<confVars, clock, ioVars, pollVars, hpc, resClosed, totals, cpc,
                   count, progressTimer, why, moved, tpc, tdeadline, srvVars>>

\* Run, main.go:178-179: the pass over allResults is over; the outer loop
\* tests numClosed < nconns
HNextPass ==
    /\ hpc = "recv"
    /\ hidx = nconns
    /\ hpc' = IF numClosed < nconns THEN "recv" ELSE "final"
    /\ hidx' = 0
    /\ UNCHANGED <<confVars, clock, ioVars, pollVars, resNil, resClosed, totals,
                   numClosed, cpc, count, progressTimer, why, moved, tpc, tdeadline,
                   srvVars>>

\* Run, main.go:196-200: the final line of connection hidx
HFinalReport ==
    /\ hpc = "final"
    /\ hidx < nconns
    /\ finalCount' = [finalCount EXCEPT ![hidx] = totals[hidx]]
    /\ out' = Append(out, ReportLine("final", hidx))
    /\ hidx' = hidx + 1
    /\ UNCHANGED <<confVars, clock, connOpen, pollVars, hpc, resNil, resClosed,
                   totals, numClosed, cpc, count, progressTimer, why, moved, tpc,
                   tdeadline, srvVars>>

\* Run, main.go:201: return nil
HReturn ==
    /\ hpc = "final"
    /\ hidx = nconns
    /\ hpc' = "done"
    /\ UNCHANGED <<confVars, clock, ioVars, pollVars, hidx, resNil, resClosed,
                   totals, numClosed, cpc, count, progressTimer, why, moved, tpc,
                   tdeadline, srvVars>>

\* What handleConn(id) or its timeout goroutine does next takes no time to
\* speak of: a step that neither blocks nor transfers, or a ready case of the
\* select (a zero interval is ready at every pass of the loop)
Pending(id) ==
    \/ cpc[id] \in {"start", "rearm", "break", "return"}
    \/ tpc[id] = "start"
    \/ tpc[id] = "wait" /\ Ready(tdeadline[id])
    \/ cpc[id] = "loop" /\ tpc[id] = "send"
    \/ /\ cpc[id] = "loop"
       /\ Ready(progressTimer[id])
       /\ interval > 0
       /\ ProgressRounds(id) < MaxRounds

\* A second passes while the goroutines transfer or block: handleConn in its
\* action or in its send, the timeout goroutine in its timer or in its send,
\* Run in its receive.
HTick ==
    /\ hpc = "recv"
    /\ \A id \in ConnIds : ~Pending(id)
    /\ clock < MaxTime
    /\ clock' = clock + 1
    /\ UNCHANGED <<confVars, ioVars, pollVars, chanVars, srvVars>>

NextChan ==
    \/ HLaunch
    \/ HEnterLoop
    \/ HSkipNil
    \/ HReceive
    \/ HReceiveClosed
    \/ HNextPass
    \/ HFinalReport
    \/ HReturn
    \/ HTick
    \/ \E id \in ConnIds :
        \/ TimeoutStart(id)
        \/ TimeoutFire(id)
        \/ HandleStart(id)
        \/ HandleProgress(id)
        \/ HandleRearm(id)
        \/ HandleTerminate(id)
        \/ HandleAction(id)
        \/ HandleCloseResults(id)
        \/ HandleClose(id)

\* The steps that the scheduler and the timers take on their own, once they
\* can be taken: every step of Run, of handleConn and of the timeout
\* goroutines but the call of action, whose result is the connection's.
NextChanSched ==
    \/ HLaunch
    \/ HEnterLoop
    \/ HSkipNil
    \/ HReceive
    \/ HReceiveClosed
    \/ HNextPass
    \/ HFinalReport
    \/ HReturn
    \/ HTick
    \/ \E id \in ConnIds :
        \/ TimeoutStart(id)
        \/ TimeoutFire(id)
        \/ HandleStart(id)
        \/ HandleProgress(id)
        \/ HandleRearm(id)
        \/ HandleTerminate(id)
        \/ HandleCloseResults(id)
        \/ HandleClose(id)

\* ----------------------------------------------------- server, server.go
InitSrv ==
    /\ protocol \in {"tcp", "udp"}
    /\ spc = "listen"
    /\ rpc = [c \in ConnIds |-> "none"]
    /\ peerLeft = [c \in ConnIds |-> 0]
    /\ peerEnd = [c \in ConnIds |-> "EOF"]

Min(a, b) == IF a <= b THEN a ELSE b

\* the connections accepted so far are 0 .. NextConn - 1
NextConn == Cardinality({c \in ConnIds : rpc[c] # "none"})

\* TCPServer.Run, server.go:54-57, and UDPServer.Run, server.go:68-71: the
\* listener or the address, or the error returned
Listen ==
    /\ prog = "server.go"
    /\ mpc = "run"
    /\ spc = "listen"
    /\ spc' \in {"accept", "returned"}
    /\ UNCHANGED <<confVars, clock, ioVars, pollVars, chanVars, protocol, rpc,
                   peerLeft, peerEnd>>

\* What Run does with a connection: TCPServer.Run starts a goroutine
\* (server.go:63) and accepts again, UDPServer.Run calls readForever itself
\* (server.go:77) and accepts again when it has returned
AfterAccept(proto) == IF proto = "tcp" THEN "accept" ELSE "serving"

\* ln.Accept() (server.go:59) or net.ListenUDP (server.go:73) yields
\* connection c, whose peer sends k bytes and then ends the stream
Accept ==
    /\ spc = "accept"
    /\ NextConn < NumConns
    /\ \E k \in 0 .. MaxBytes, e \in {"EOF", "error"} :
        /\ peerLeft' = [peerLeft EXCEPT ![NextConn] = k]
        /\ peerEnd' = [peerEnd EXCEPT ![NextConn] = e]
    /\ rpc' = [rpc EXCEPT ![NextConn] = "reading"]
    /\ spc' = AfterAccept(protocol)
    /\ UNCHANGED <<confVars, clock, ioVars, pollVars, chanVars, protocol>>

\* server.go:60-62 and 74-76: the error is returned, and main ends the process
AcceptFails ==
    /\ spc = "accept"
    /\ spc' = "returned"
    /\ UNCHANGED <<confVars, clock, ioVars, pollVars, chanVars, protocol, rpc,
                   peerLeft, peerEnd>>

\* readForever's reaction to the result of one Read, server.go:44-49
AfterRead(err) == IF err # "nil" THEN "return" ELSE "reading"

\* readForever, server.go:42-50: one c.Read(buffer)
readForever(c) ==
    /\ spc # "returned"
    /\ rpc[c] = "reading"
    /\ IF peerLeft[c] > 0
       THEN /\ \E n \in 1 .. Min(BufSize, peerLeft[c]) :
                 peerLeft' = [peerLeft EXCEPT ![c] = @ - n]
            /\ rpc' = [rpc EXCEPT ![c] = AfterRead("nil")]
       ELSE /\ rpc' = [rpc EXCEPT ![c] = AfterRead(peerEnd[c])]
            /\ UNCHANGED peerLeft
    /\ UNCHANGED <<confVars, clock, ioVars, pollVars, chanVars, protocol, spc,
                   peerEnd>>

\* readForever's deferred function, server.go:35-38: c.Close()
readForeverClose(c) ==
    /\ spc # "returned"
    /\ rpc[c] = "return"
    /\ connOpen' = [connOpen EXCEPT ![c] = FALSE]
    /\ rpc' = [rpc EXCEPT ![c] = "exited"]
    /\ UNCHANGED <<confVars, clock, out, finalCount, pollVars, chanVars, protocol,
                   spc, peerLeft, peerEnd>>

\* UDPServer.Run, server.go:72-78: readForever has returned, the loop goes on
ServeNext ==
    /\ spc = "serving"
    /\ \A c \in ConnIds : rpc[c] \in {"none", "exited"}
    /\ spc' = "accept"
    /\ UNCHANGED <<confVars, clock, ioVars, pollVars, chanVars, protocol, rpc,
                   peerLeft, peerEnd>>

NextSrv ==
    \/ Listen
    \/ Accept
    \/ AcceptFails
    \/ ServeNext
    \/ \E c \in ConnIds :
        \/ readForever(c)
        \/ readForeverClose(c)

\* ------------------------------------------- start-up, main.go and NewClient
\* the values of -len tried: none, a size, a zero size, a negative size, an
\* unknown label, a number without a label
Lengths == {"", "1K", "0K", "-1K", "1x", "1"}

\* the values of -f tried: a label of the tables and one that is not
Formats == {"M", "x"}

\* main.go:37-40  sizes[label], 0 for a label that is not in the map
sizes(label) ==
    CASE label = "k" -> 125
      [] label = "m" -> 125000
      [] label = "g" -> 125000000
      [] label = "K" -> 1000
      [] label = "M" -> 1000000
      [] label = "G" -> 1000000000
      [] OTHER -> 0

\* main.go:42-45  units[label], "" for a label that is not in the map
units(label) ==
    CASE label = "k" -> "kbps"
      [] label = "m" -> "mbps"
      [] label = "g" -> "gbps"
      [] label = "K" -> "KB/s"
      [] label = "M" -> "MB/s"
      [] label = "G" -> "GB/s"
      [] OTHER -> ""

\* main.go:78  fmt.Sscanf(*length, "%d%c", &bufsize, &label): the number and
\* the label read from the values of Lengths, and the error when the label is
\* missing
Sscanf(s) ==
    CASE s = "1K" -> [err |-> "nil", bufsize |-> 1, label |-> "K"]
      [] s = "0K" -> [err |-> "nil", bufsize |-> 0, label |-> "K"]
      [] s = "-1K" -> [err |-> "nil", bufsize |-> 0 - 1, label |-> "K"]
      [] s = "1x" -> [err |-> "nil", bufsize |-> 1, label |-> "x"]
      [] OTHER -> [err |-> "unexpected EOF", bufsize |-> 1, label |-> ""]

\* main.go:76-98: the buffer size is fatal
LengthFatal(s, proto) ==
    IF s # ""
    THEN LET r == Sscanf(s)
         IN  \/ r.err # "nil"
             \/ r.bufsize < 0
             \/ r.bufsize * sizes(r.label) = 0
    ELSE proto \notin {"tcp", "udp"}

\* main.go:100-105: the report format is fatal
FormatFatal(f) == sizes(f) = 0 \/ units(f) = ""

InitMain ==
    /\ mpc = "length"
    /\ length \in Lengths
    /\ format \in Formats
    /\ window \in 0 .. 1
    /\ numConns \in (0 - 1) .. NumConns
    /\ nconns = 0
    /\ made = 0
    /\ nerr = "nil"

\* the state in which main calls Run: NewClient has returned all the
\* connections asked for
MainDone ==
    /\ mpc = "run"
    /\ length = ""
    /\ format = "M"
    /\ window = 0
    /\ numConns = NumConns
    /\ nconns = NumConns
    /\ made = NumConns
    /\ nerr = "nil"

\* main, main.go:76-98
MainLength ==
    /\ mpc = "length"
    /\ mpc' = IF LengthFatal(length, protocol) THEN "fatal" ELSE "format"
    /\ UNCHANGED <<interval, duration, prog, labelVars, length, format, window,
                   numConns, nconns, made, nerr, clock, ioVars, pollVars,
                   chanVars, srvVars>>

\* main, main.go:100-105 and the call of NewClient, main.go:119
MainFormat ==
    /\ mpc = "format"
    /\ mpc' = IF FormatFatal(format) THEN "fatal" ELSE "new"
    /\ UNCHANGED <<interval, duration, prog, labelVars, length, format, window,
                   numConns, nconns, made, nerr, clock, ioVars, pollVars,
                   chanVars, srvVars>>

\* What one pass of NewClient's loop can come to: the connection, or the
\* error of the maker or, when the socket buffers are set, of a setter
ConnResults(sysBufSize) ==
    {"nil", "dial"} \cup
        (IF sysBufSize > 0 THEN {"SetWriteBuffer", "SetReadBuffer"} ELSE {})

\* NewClient, client.go:24-47 and main.go:147-162: one pass of the loop; an
\* error returns at once, with the connection the maker gave left as it is
NewClientConn ==
    /\ mpc = "new"
    /\ nconns < numConns
    /\ \E r \in ConnResults(window) :
        /\ made' = IF r = "dial" THEN made ELSE made + 1
        /\ IF r = "nil"
           THEN /\ nconns' = nconns + 1
                /\ UNCHANGED <<nerr, mpc>>
           ELSE /\ nerr' = r
                /\ mpc' = "returned"
                /\ UNCHANGED nconns
    /\ UNCHANGED <<interval, duration, prog, labelVars, length, format, window,
                   numConns, clock, ioVars, pollVars, chanVars, srvVars>>

\* NewClient, client.go:24 and 49: the loop is over, return
NewClientReturn ==
    /\ mpc = "new"
    /\ nconns >= numConns
    /\ mpc' = "returned"
    /\ UNCHANGED <<interval, duration, prog, labelVars, length, format, window,
                   numConns, nconns, made, nerr, clock, ioVars, pollVars,
                   chanVars, srvVars>>

\* the bug of running with the connections made before the error
AfterNewClient_Ignored(err) == "run"

\* main.go:119-127: log.Fatal(err), or runnable.Run()
AfterNewClient(err) == IF err # "nil" THEN "fatal" ELSE "run"

\* main, main.go:119-125
MainStart ==
    /\ mpc = "returned"
    /\ mpc' = AfterNewClient(nerr)
    /\ UNCHANGED <<interval, duration, prog, labelVars, length, format, window,
                   numConns, nconns, made, nerr, clock, ioVars, pollVars,
                   chanVars, srvVars>>

NextMain ==
    \/ MainLength
    \/ MainFormat
    \/ NewClientConn
    \/ NewClientReturn
    \/ MainStart

\* ------------------------------------------------------ specifications
InitConf ==
    /\ interval \in 0 .. MaxInterval
    /\ duration \in 0 .. MaxDuration
    /\ clock = 0

InitIO ==
    /\ connOpen = [id \in ConnIds |-> TRUE]
    /\ out = <<>>
    /\ finalCount = [id \in ConnIds |-> Never]

\* a program that is not the one run
PollOff == InitPoll /\ variant = "timer"

ChanOff == InitChan

SrvOff == InitSrv /\ protocol = "tcp"

\* The polling client of client.go
Init ==
    /\ InitConf /\ MainDone /\ InitIO /\ InitPoll /\ prog = "client.go"
    /\ LabelOff /\ ChanOff /\ SrvOff

Next == NextPoll

Spec == Init /\ [][Next]_vars

\* The channel-based client of main.go
InitC ==
    /\ InitConf /\ MainDone /\ InitIO /\ PollOff /\ InitChan /\ prog = "main.go"
    /\ LabelOff /\ SrvOff

SpecChan == InitC /\ [][NextChan]_vars

\* The channel-based client with interval > 0 and duration > 0, its
\* goroutines scheduled fairly and its timers firing: a step of
\* NextChanSched that stays possible is taken.  No action has to fail.
InitCF == InitC /\ interval > 0 /\ duration > 0

SpecChanFair == InitCF /\ [][NextChan]_vars /\ WF_vars(NextChanSched)

\* The server of server.go, which reads no interval and no duration
InitS ==
    /\ InitConf /\ interval = 0 /\ duration = 0
    /\ MainDone /\ InitIO /\ PollOff /\ ChanOff /\ InitSrv /\ prog = "server.go"
    /\ LabelOff

SpecServer == InitS /\ [][NextSrv]_vars

\* Any one of the three programs
InitAll == Init \/ InitC \/ InitS

NextAll == NextPoll \/ NextChan \/ NextSrv

SpecAll == InitAll /\ [][NextAll]_vars

\* The start of the polling client, from the parsed flags to the end of Run.
\* The flags -i and -t play no part in the start-up and are left at one and
\* two seconds.
InitM ==
    /\ clock = 0 /\ interval = 1 /\ duration = 2
    /\ prog = "client.go"
    /\ InitMain /\ InitIO /\ PollOff /\ ChanOff /\ InitSrv /\ LabelOff

NextM == NextMain \/ NextPoll

SpecMain == InitM /\ [][NextM]_vars

\* autoLabel, applied to one rate
InitL ==
    /\ clock = 0 /\ interval = 1 /\ duration = 1
    /\ prog = "client.go"
    /\ MainDone /\ InitIO /\ PollOff /\ ChanOff /\ SrvOff /\ InitLabel

NextL == reportAutoLabel

SpecLabel == InitL /\ [][NextL]_vars

\* ------------------------------------------------------------------ claims
FinalLines(id) == Cardinality(Lines("final", id))

AggregateLines == Cardinality({i \in DOMAIN out : out[i].kind = "aggregate"})

\* writeForever(id)'s loop is over: it has no exit of its own, and ends with
\* the process when Run has returned
WriteLoopOver(id) == wpc[id] = "running" /\ pc = "done"

\* C1: every Transfer Loop (writeForever, handleConn, readForever) that is
\* over, after end-of-stream, an I/O error or its termination signal, has
\* closed its connection.
C1_ClosedOnExit ==
    \A id \in ConnIds :
        /\ WriteLoopOver(id) => ~connOpen[id]
        /\ cpc[id] = "exited" => ~connOpen[id]
        /\ rpc[id] = "exited" => ~connOpen[id]

\* C1 for the two loops that do close: handleConn and readForever.
C1_DeferredClose ==
    \A id \in ConnIds :
        /\ cpc[id] = "exited" => ~connOpen[id]
        /\ rpc[id] = "exited" => ~connOpen[id]

\* C2: once a conn.Write of writeForever has returned end-of-stream or another
\* error, the loop has stopped: it is not about to Write again.
C2_StopsAfterError == \A id \in ConnIds : werr[id] => wpc[id] # "running"

\* C3 as stated: the byte total of a connection's final line equals the sum
\* of the windowBytes of its progress lines.
C3_FinalEqualsWindows ==
    \A id \in ConnIds : finalCount[id] # Never => finalCount[id] = sumDiff[id]

\* C3 as amended: the byte total of a connection's final line is at least the
\* sum of the windowBytes of its progress lines and at most its counter; the
\* bytes written after the last progress round are in the final total only.
C3_FinalCoversWindows ==
    \A id \in ConnIds :
        finalCount[id] # Never =>
            /\ sumDiff[id] <= finalCount[id]
            /\ finalCount[id] <= counts[id]

C3_Witness ==
    /\ pc = "done"
    /\ ProgressRounds(0) >= 2
    /\ sumDiff[0] = MaxBytes
    /\ finalCount[0] = MaxBytes
    /\ sumDiff[1] = 0
    /\ finalCount[1] > 0

\* C4: the windowBytes of every progress line is the counter read at that
\* sample minus the counter read at the sample before (0 before the first),
\* and so lastCounts[id] is the sum of the windowBytes reported for id, at
\* every interleaving of the writers with the sampling loop.
C4_WindowIsDifference ==
    /\ [](\A id \in ConnIds : lastCounts[id] = sumDiff[id])
    /\ [][(pc = "round" /\ out' # out) =>
                /\ out' = Append(out, ReportLine("progress", idx))
                /\ sumDiff'[idx] - sumDiff[idx] = counts[idx] - lastCounts[idx]
                /\ lastCounts'[idx] = counts[idx]]_vars

C4_Witness ==
    /\ ProgressRounds(0) >= 2
    /\ lastCounts[0] = MaxBytes
    /\ ProgressRounds(1) >= 2
    /\ lastCounts[1] = 0
    /\ counts[1] > 0

Multiple(d, i) == i > 0 /\ d > 0 /\ d % i = 0

C6_ZeroInterval ==
    (interval = 0 /\ duration > 0) =>
        \A id \in ConnIds :
            /\ ProgressRounds(id) = 0
            /\ pc = "done" => FinalLines(id) = 1

\* C7: with duration = 0 the stop signal never fires: Run never leaves its
\* sampling loop, no final line is emitted, and no timeout goroutine ends a
\* handleConn.
C7_ZeroDuration ==
    duration = 0 =>
        /\ pc \notin {"final", "done"}
        /\ \A id \in ConnIds :
            /\ FinalLines(id) = 0
            /\ tpc[id] \notin {"send", "done"}
            /\ why[id] # "terminated"

\* C8: once Run has left its sampling loop no Transfer Loop writes any more:
\* no counter changes while the final lines are computed.
C8_QuietAfterStop == [][pc = "final" => counts' = counts]_vars

\* C9: a run that has returned has emitted exactly one final line for every
\* connection, also for one whose Write failed, no connection ever has two,
\* and the byte total of the line is the counter as its loop last wrote it.
C9_FinalLinePerConn ==
    /\ [](\A id \in ConnIds :
            /\ FinalLines(id) <= 1
            /\ pc = "done" => FinalLines(id) = 1
            /\ (finalCount[id] # Never) = (FinalLines(id) = 1))
    /\ [][\A id \in ConnIds :
            finalCount'[id] # finalCount[id] => finalCount'[id] = counts[id]]_vars

\* a connection whose Write failed after a progress round has its final line,
\* with the bytes it wrote after that round
C9_Witness ==
    /\ pc = "done"
    /\ werr[0]
    /\ ProgressRounds(0) >= 1
    /\ lastCounts[0] = 0
    /\ finalCount[0] = MaxBytes
    /\ \A id \in ConnIds : FinalLines(id) = 1

\* C10: a run that has returned has emitted exactly one aggregate line, after
\* the final lines of all connections.
C10_AggregateLine ==
    pc = "done" =>
        /\ AggregateLines = 1
        /\ \A i \in DOMAIN out :
            out[i].kind = "final" => \E j \in DOMAIN out :
                j > i /\ out[j].kind = "aggregate"

\* C11: the printed lines are a sequence of whole rounds and at most one round
\* under way: the line at position i carries id (i - 1) mod N, so that every
\* round lists the ids 0, 1, ..., N-1 in ascending order and each id once; the
\* lines of one round are all progress lines or all final lines, so that no
\* two rounds interleave; and a line that follows a final line is a final line.
C11_RoundsInOrder ==
    \A i \in DOMAIN out :
        /\ out[i].id = (i - 1) % NumConns
        /\ out[i].kind \in {"progress", "final"}
        /\ out[i].id > 0 => out[i - 1].kind = out[i].kind
        /\ (i > 1 /\ out[i - 1].kind = "final") => out[i].kind = "final"

\* three progress rounds and the final round, all complete
C11_Witness ==
    /\ pc = "done"
    /\ Len(out) = 4 * NumConns
    /\ out[3 * NumConns].kind = "progress"
    /\ out[4 * NumConns] = ReportLine("final", NumConns - 1)

\* C12: once a Write of connection j has failed, counts[j] never changes
\* again.
C12_CounterFrozenAfterFailure ==
    [][\A j \in ConnIds : werr[j] => counts'[j] = counts[j]]_vars

\* a pass of NewClient's loop has failed, in the maker or in a setter
NewClientFailed == nerr # "nil"

\* C13: when a maker or a setter fails in NewClient, NewClient returns the
\* error and main never calls Run: no writeForever is started and no line is
\* printed; and a Run that main does call has all the numConns connections.
C13_AbortOnConnFailure ==
    /\ NewClientFailed =>
        /\ mpc \in {"returned", "fatal"}
        /\ pc = "launch" /\ idx = 0
        /\ \A id \in ConnIds : wpc[id] = "unstarted"
        /\ out = <<>>
    /\ (mpc = "run" /\ numConns >= 0) => nconns = numConns
    /\ \A id \in ConnIds : wpc[id] # "unstarted" => id < numConns

\* the setter of the last of the connections asked for fails, after the
\* others were made: main ends in log.Fatal
C13_Witness ==
    /\ mpc = "fatal"
    /\ nerr = "SetReadBuffer"
    /\ numConns = NumConns
    /\ made = NumConns
    /\ nconns = NumConns - 1

\* a configuration error among the flags: the buffer size or its unit label,
\* the report format, the stream count
ConfigError ==
    \/ LengthFatal(length, protocol)
    \/ FormatFatal(format)
    \/ numConns <= 0

\* C14: with a configuration error among the flags, no connection is ever
\* made and main never calls Run.
C14_ConfigErrorsFatal == ConfigError => (made = 0 /\ mpc # "run")

\* C14 without the stream count: a bad buffer size, unit label or format
\* ends main before NewClient is called.
C14_FlagErrorsFatal ==
    (LengthFatal(length, protocol) \/ FormatFatal(format)) =>
        (made = 0 /\ mpc \in {"length", "format", "fatal"})

\* C15: while the receive loop of a connection is running, Run is at the
\* call that obtains the next connection, so that another connection can be
\* obtained and served beside it, with either server.
C15_ServedConcurrently ==
    \A c \in ConnIds :
        (rpc[c] = "reading" /\ spc # "returned") => spc = "accept"

\* the divisor of a unit: bytes per second in one of it
Divisor(u) ==
    CASE u = "gbps" -> 125000000
      [] u = "mbps" -> 125000
      [] u = "kbps" -> 125
      [] OTHER -> 1

\* the largest unit in which x is at least 1, and bps when there is none
LargestUnit(x) ==
    IF x >= Divisor("gbps") THEN "gbps"
    ELSE IF x >= Divisor("mbps") THEN "mbps"
    ELSE IF x >= Divisor("kbps") THEN "kbps"
    ELSE "bps"

\* C16: autoLabel(x) returns the largest unit among gbps, mbps, kbps and bps
\* in which x is at least 1, the larger unit when x is exactly its divisor.
C16_LargestUnit ==
    labelled # NoLabel => labelled.unit = LargestUnit(ratebps)

\* C17: no counter ever decreases; a step that changes counts[id] is a step
\* of the running writeForever of connection id and of nothing else: it
\* changes no other counter and is no step of Run, which leaves its position,
\* its samples and its output as they are; and Run starts the loop of a
\* connection once, when its own for loop is at that connection.
C17_SingleWriter ==
    [][\A id \in ConnIds :
        /\ counts'[id] >= counts[id]
        /\ counts'[id] # counts[id] =>
            /\ wpc[id] = "running"
            /\ \A o \in ConnIds \ {id} : counts'[o] = counts[o]
            /\ <<pc, idx, out, lastCounts, finalCount>>' =
                    <<pc, idx, out, lastCounts, finalCount>>
        /\ wpc'[id] # wpc[id] =>
            /\ wpc[id] = "unstarted"
            /\ pc = "launch"
            /\ idx = id]_vars

\* every counter has advanced, and Run has sampled, reported and returned
C17_Witness ==
    /\ pc = "done"
    /\ \A id \in ConnIds : counts[id] = MaxBytes /\ finalCount[id] = MaxBytes
    /\ ProgressRounds(0) >= 1

\* a rate computed over a strictly positive elapsed time
OverPositiveTime(r) == r.secs > 0 /\ r.is = "finite"

\* C18: in the Run that reports through report (client.go:111-157), the rate
\* and the mean rate of every progress line and the mean rate of every final
\* line are computed over a strictly positive elapsed time: no line is
\* printed from a division by a zero elapsed time.
C18_PositiveElapsed ==
    [][variant = "timer" =>
        /\ (pc = "round" /\ out' # out) =>
            (OverPositiveTime(rate(idx)) /\ OverPositiveTime(meanRate(idx)))
        /\ (pc = "final" /\ out' # out) => OverPositiveTime(finalRate(idx))]_vars

\* a run with interval 1 that has printed two progress rounds, one second
\* apart, and its final lines
C18_Witness ==
    /\ variant = "timer"
    /\ pc = "done"
    /\ interval = 1
    /\ ProgressRounds(0) = 2
    /\ lastTimes[0] = startTimes[0] + 2
    /\ counts[0] = MaxBytes

\* C18 for the Run of client.go:254-303 as well, which arms its timers with
\* time.After.
C18_PositiveElapsedAfter ==
    [][(pc = "round" /\ out' # out) =>
            (OverPositiveTime(rate(idx)) /\ OverPositiveTime(meanRate(idx)))]_vars

\* C19: the total printed in the final line of a connection of the
\* channel-based client is the number of bytes its handleConn has transferred.
C19_FinalIsTransferred ==
    \A id \in ConnIds : finalCount[id] # Never => finalCount[id] = moved[id]

\* C20: with interval > 0 and duration > 0 and fair scheduling, the Run of
\* the channel-based client returns: by then every handleConn has closed its
\* results channel and Run has printed one final line for every connection.
C20_RunTerminates ==
    <>(/\ hpc = "done"
       /\ \A id \in ConnIds : resClosed[id] /\ FinalLines(id) = 1)

\* Run has returned although connection 0 ended on an error before its first
\* result and connection 1 was ended by its terminator after two results
C20_Witness ==
    /\ hpc = "done"
    /\ why[0] = "error" /\ ProgressRounds(0) = 0
    /\ why[1] = "terminated" /\ ProgressRounds(1) = 2
    /\ \A id \in ConnIds : FinalLines(id) = 1

\* the channels that Run has found closed
ObservedClosed == {id \in ConnIds : resClosed[id] /\ resNil[id]}

\* C21: a results channel is closed once, by its own handleConn when it has
\* left its loop, and that handleConn never sends again; Run counts a closed
\* channel once, when it receives from it, sets it to nil and never receives
\* from it again, so that numClosed is the number of channels found closed
\* and never exceeds the number of connections.
C21_ClosedOnceByOwner ==
    /\ [](/\ \A id \in ConnIds : resClosed[id] => cpc[id] \in {"return", "exited"}
          /\ numClosed = Cardinality(ObservedClosed)
          /\ numClosed <= nconns)
    /\ [][\A id \in ConnIds :
            /\ resClosed'[id] # resClosed[id] =>
                /\ ~resClosed[id]
                /\ cpc[id] = "break" /\ cpc'[id] = "return"
                /\ \A o \in ConnIds \ {id} : resClosed'[o] = resClosed[o]
            /\ (resClosed[id] /\ resNil[id]) =>
                /\ resNil'[id]
                /\ totals'[id] = totals[id]
                /\ (numClosed' # numClosed => hidx # id)]_vars

\* Run has returned with every channel counted: that of connection 0 closed
\* on an error before any send, that of connection 1 on its terminator after
\* two sends
C21_Witness ==
    /\ hpc = "done"
    /\ numClosed = NumConns
    /\ why[0] = "error" /\ ProgressRounds(0) = 0
    /\ why[1] = "terminated" /\ ProgressRounds(1) = 2
    /\ \A id \in ConnIds : totals[id] = finalCount[id]

\* handleConn(id) has left its loop: it receives from its terminator no more
LoopLeft(id) == cpc[id] \in {"break", "return", "exited"}

\* C22: no timeout goroutine is blocked in done <- true when the handleConn
\* it was made for has left its loop; the only receive from done is in that
\* loop, so a goroutine so blocked stays blocked for good.
C22_TimeoutNotStranded ==
    \A id \in ConnIds : tpc[id] = "send" => ~LoopLeft(id)

\* the connections that the makers of NewClient have established
Established == {id \in ConnIds : id < made}

\* C23: when NewClient has returned an error, every connection it had
\* established in that call is closed.
C23_ClosedOnFailure ==
    (NewClientFailed /\ mpc \in {"returned", "fatal"}) =>
        \A id \in Established : ~connOpen[id]

====
